---- MODULE Spec2Model ----
(***************************************************************************)
(* Model of the Jarvis retrieval-augmented answering backend:              *)
(*   backend/embeddings.py, backend/vector_db.py, backend/llm.py,          *)
(*   backend/rag.py and the FastAPI handlers of backend/main.py.           *)
(*                                                                         *)
(* Strings are sequences of one-character strings, so that slicing,        *)
(* stripping and concatenation are computed as Python computes them.       *)
(* A document id n stands for the string "doc_n".  The embedding model,    *)
(* the Pinecone index and the Ollama server are external services: the     *)
(* model keeps what the code relies on (a deterministic embedding, upsert  *)
(* by id, a ranked top-k query, the outcomes of an HTTP call) and leaves   *)
(* every outcome of a call (success, exception) to a nondeterministic      *)
(* choice.                                                                 *)
(***************************************************************************)
EXTENDS Integers, Sequences, FiniteSets, TLC

\* ------------------------------------------------------------------ bounds
\* Worker threads of the server's thread pool that handle requests.
NumThreads == 2
\* Requests received in one run of the server.
MaxRequests == 3
\* Largest top_k a direct answer() call is tried with.
MaxTopK == 7
\* Number of directions the abstract embedding distinguishes.
KeyMod == 5

\* ------------------------------------------------------- program constants
BATCH_SIZE == 100
PREVIEW_LEN == 100
EMBEDDING_DIMENSION == 384
DEFAULT_TOP_K == 5
REQUEST_TOP_K_DEFAULT == 5
MAX_TOKENS == 512
GENERATE_TIMEOUT == 60
TEMPERATURE == "0.7"

Threads == 1..NumThreads

\* ------------------------------------------------------------ text helpers
Min(a, b) == IF a <= b THEN a ELSE b
Abs(a) == IF a < 0 THEN 0 - a ELSE a
SetMin(S) == CHOOSE x \in S : \A y \in S : x <= y
SetMax(S) == CHOOSE x \in S : \A y \in S : y <= x

\* The string of n copies of character c.
Rep(c, n) == [i \in 1..n |-> c]

\* Python s[:n]
Prefix(s, n) == SubSeq(s, 1, Min(n, Len(s)))

\* Python s[i : i + n] on a list, i counted from 0
ListSlice(s, i, n) == SubSeq(s, i + 1, Min(i + n, Len(s)))

\* The characters for which Python's str.isspace() is true.  A character
\* that has no escape in a TLA+ string is written as its code point.
Whitespace ==
    {" ", "\t", "\n", "\r", "\f", "U+000B", "U+001C", "U+001D", "U+001E", "U+001F",
     "U+0085", "U+00A0", "U+1680", "U+2000", "U+2001", "U+2002", "U+2003",
     "U+2004", "U+2005", "U+2006", "U+2007", "U+2008", "U+2009", "U+200A",
     "U+2028", "U+2029", "U+202F", "U+205F", "U+3000"}

IsSpace(c) == c \in Whitespace

\* Python str.strip()
Strip(s) ==
    LET keep == {i \in 1..Len(s) : ~IsSpace(s[i])}
    IN  IF keep = {} THEN <<>> ELSE SubSeq(s, SetMin(keep), SetMax(keep))

\* Python dict.get(key, default)
Get(d, key, default) == IF key \in DOMAIN d THEN d[key] ELSE default

Ellipsis == <<".", ".", ".">>

\* --------------------------------------------------------------- embedder
\* The direction of a text's embedding: a deterministic function of the text
\* (the sentence-transformers model is opaque; only determinism is used).
CharCode(c) ==
    CASE c = "a" -> 1 [] c = "b" -> 2 [] c = "c" -> 3 [] c = "s" -> 4
      [] c = "w" -> 2 [] OTHER -> 0

TextKey(text) ==
    (Len(text) + (IF Len(text) = 0 THEN 0 ELSE CharCode(text[1]))) % KeyMod

\* embed_text: a vector of EMBEDDING_DIMENSION floats, kept as its length and
\* its direction.
embed_text(text) == [dim |-> EMBEDDING_DIMENSION, key |-> TextKey(text)]

\* embed_batch: one vector per text, order preserved.
embed_batch(texts) == [i \in 1..Len(texts) |-> embed_text(texts[i])]

\* ---------------------------------------------------------- Pinecone index
\* Similarity of a stored vector to the query vector (higher = more similar).
Score(q, v) == KeyMod - Abs(q.key - v.key)

\* index.upsert(vectors=batch): every tuple (id, values, metadata) replaces
\* the record with the same id or is added; the last tuple of an id wins.
IndexUpsert(idx, vectors) ==
    LET n == Len(vectors)
        last == {j \in 1..n : \A k \in (j + 1)..n : vectors[k][1] # vectors[j][1]}
    IN  {r \in idx : \A j \in 1..n : vectors[j][1] # r.id}
        \cup {[id |-> vectors[j][1], values |-> vectors[j][2],
               metadata |-> vectors[j][3]] : j \in last}

\* a is ranked before b for query vector q: higher score first, ties by id.
RankedBefore(a, b, q) ==
    \/ Score(q, a.values) > Score(q, b.values)
    \/ Score(q, a.values) = Score(q, b.values) /\ a.id < b.id

\* index.query(vector, top_k, include_metadata=True)["matches"]
IndexQuery(idx, q, k) ==
    LET n == Min(k, Cardinality(idx))
        at(i) == CHOOSE r \in idx :
                    Cardinality({s \in idx : RankedBefore(s, r, q)}) = i - 1
    IN  [i \in 1..n |-> [id |-> at(i).id, score |-> Score(q, at(i).values),
                         metadata |-> at(i).metadata]]

\* ------------------------------------------------------------- exceptions
\* An exception object: its class, str(e), and what an Ollama error carries.
Error(exc, msg) == [exc |-> exc, msg |-> msg, status |-> 0, body |-> <<>>, url |-> ""]

Return(value) == [kind |-> "return", value |-> value]
Raise(error) == [kind |-> "raise", error |-> error]

\* ------------------------------------------------- backend/vector_db.py
\* upsert_documents, the loop that builds vectors_to_upsert.
VectorTuple(doc) ==
    <<doc.id, doc.embedding,
      [text |-> doc.text, source |-> Get(doc, "source", "unknown")]>>

VectorsToUpsert(documents) ==
    [i \in 1..Len(documents) |-> VectorTuple(documents[i])]

\* Faulty variant: the slice is one record short of the step of the loop.
UpsertBatch_OneShort(vectors, i) == ListSlice(vectors, i, BATCH_SIZE - 1)

\* upsert_documents, the batch submitted when the loop variable is i.
UpsertBatch(vectors, i) == ListSlice(vectors, i, BATCH_SIZE)

\* query_top_k, the loop that builds formatted_results.
FormatMatch(m) ==
    [id |-> m.id,
     text |-> Get(m.metadata, "text", <<>>),
     score |-> m.score,
     source |-> Get(m.metadata, "source", "unknown")]

\* Faulty variants of the formatting loop: the matches in reverse order,
\* and matches without a "text" in their metadata left out.
FormattedResults_Reversed(matches) ==
    [i \in 1..Len(matches) |-> FormatMatch(matches[Len(matches) + 1 - i])]

FormattedResults_SkipsNoText(matches) ==
    LET kept == SelectSeq(matches, LAMBDA m : "text" \in DOMAIN m.metadata)
    IN  [i \in 1..Len(kept) |-> FormatMatch(kept[i])]

FormattedResults(matches) == [i \in 1..Len(matches) |-> FormatMatch(matches[i])]

\* --------------------------------------------------------- backend/llm.py
\* The classes an exception class derives from directly.  The names are
\* those of requests.exceptions; a class of another module with the name of
\* one of them carries its module.  ConnectTimeout derives from both
\* ConnectionError and Timeout; the errors of a malformed URL, header or
\* proxy and of a body that is not JSON derive from ValueError.
ExceptionParents(exc) ==
    CASE exc \in {"HTTPError", "ConnectionError", "Timeout", "URLRequired",
                  "TooManyRedirects", "ChunkedEncodingError", "RetryError",
                  "UnrewindableBodyError", "InvalidJSONError"} -> {"RequestException"}
      [] exc = "RequestException" -> {"OSError"}
      [] exc \in {"ProxyError", "SSLError"} -> {"ConnectionError"}
      [] exc = "ConnectTimeout" -> {"ConnectionError", "Timeout"}
      [] exc = "ReadTimeout" -> {"Timeout"}
      [] exc = "JSONDecodeError" -> {"InvalidJSONError", "json.JSONDecodeError"}
      [] exc = "json.JSONDecodeError" -> {"ValueError"}
      [] exc \in {"MissingSchema", "InvalidSchema", "InvalidURL", "InvalidHeader"} ->
            {"RequestException", "ValueError"}
      [] exc = "InvalidProxyURL" -> {"InvalidURL"}
      [] exc = "ContentDecodingError" -> {"RequestException", "urllib3.HTTPError"}
      [] exc = "StreamConsumedError" -> {"RequestException", "TypeError"}
      [] exc = "LocationParseError" -> {"LocationValueError"}
      [] exc = "LocationValueError" -> {"ValueError", "urllib3.HTTPError"}
      [] exc \in {"UnicodeEncodeError", "UnicodeDecodeError"} -> {"UnicodeError"}
      [] exc = "UnicodeError" -> {"ValueError"}
      [] exc = "BrokenPipeError" -> {"builtins.ConnectionError"}
      [] exc = "builtins.ConnectionError" -> {"OSError"}
      [] exc = "KeyError" -> {"LookupError"}
      [] OTHER -> {}

\* The class and every class it derives from, besides Exception.
RECURSIVE ExceptionBases(_)
ExceptionBases(exc) ==
    {exc} \cup UNION {ExceptionBases(parent) : parent \in ExceptionParents(exc)}

\* Python isinstance(e, cls)
IsInstance(exc, cls) == cls \in ExceptionBases(exc)

\* The classes caught by "except requests.exceptions.ConnectionError".
IsConnectionError(exc) == IsInstance(exc, "ConnectionError")

OLLAMA_BASE_URL == "http://localhost:11434"

\* A JSON value of a response body: a string, or null.
JStr(s) == [type |-> "str", str |-> s]
JNone == [type |-> "null", str |-> <<>>]

\* A response of the server: its status, its text, and what the text is when
\* parsed as JSON: an object (with its members), a list, or not JSON at all.
Response(status, text, parsed, members) ==
    [kind |-> "response", status |-> status, text |-> text,
     parsed |-> parsed, json |-> members]

\* requests.post raises an exception of class exc.
PostRaises(exc, msg) == [kind |-> "raise", exc |-> exc, msg |-> msg]

\* What requests.post can do: answer with a status and a body, or raise.
PostOutcomes ==
    {Response(200, <<>>, "object", [response |-> JStr(<<" ", "o", "k", "\r", "\n">>)]),
     Response(200, <<>>, "object", [done |-> JStr(<<>>)]),
     Response(200, <<>>, "object", [response |-> JNone]),
     Response(200, <<"[", "]">>, "list", <<>>),
     Response(200, <<"<", "p", ">">>, "not_json", <<>>),
     Response(500, <<"e", "r", "r">>, "object", [error |-> JStr(<<"e", "r", "r">>)]),
     PostRaises("ConnectionError", "connection refused"),
     PostRaises("SSLError", "certificate verify failed"),
     PostRaises("ConnectTimeout", "timed out"),
     PostRaises("ReadTimeout", "timed out"),
     PostRaises("InvalidSchema", "No connection adapters were found")}

\* OllamaLLM.generate, given what requests.post did.
OllamaGenerate(post) ==
    IF post.kind = "raise"
    THEN IF IsConnectionError(post.exc)
         THEN Raise([Error("Exception", "Cannot connect to Ollama")
                        EXCEPT !.url = OLLAMA_BASE_URL])
         ELSE Raise(Error(post.exc, post.msg))
    ELSE IF post.status # 200
         THEN Raise([Error("Exception", "Ollama error")
                        EXCEPT !.status = post.status, !.body = post.text])
    \* result = response.json()
    ELSE IF post.parsed = "not_json"
         THEN Raise(Error("JSONDecodeError", "Expecting value"))
    \* result.get("response", "").strip()
    ELSE IF post.parsed # "object"
         THEN Raise(Error("AttributeError", "'list' object has no attribute 'get'"))
    ELSE IF Get(post.json, "response", JStr(<<>>)).type # "str"
         THEN Raise(Error("AttributeError", "'NoneType' object has no attribute 'strip'"))
         ELSE Return(Strip(Get(post.json, "response", JStr(<<>>)).str))

\* --------------------------------------------------------- backend/rag.py
\* _build_rag_prompt: the instruction block, the numbered documents, the
\* question and the answer cue.
ContextEntry(i, doc) == [number |-> i, source |-> doc.source, text |-> doc.text]

BuildRagPrompt(query, retrieved_docs) ==
    [persona |-> "Jarvis",
     context |-> [i \in 1..Len(retrieved_docs) |-> ContextEntry(i, retrieved_docs[i])],
     question |-> query,
     cue |-> "ANSWER:"]

\* answer, step 5: one source entry per retrieved document.
\* Faulty variant: the marker is appended only to a text that was cut.
SourceEntry_MarksOnlyCutText(doc) ==
    [text |-> IF Len(doc.text) > PREVIEW_LEN
              THEN Prefix(doc.text, PREVIEW_LEN) \o Ellipsis
              ELSE doc.text,
     id |-> doc.id]

SourceEntry(doc) ==
    [text |-> Prefix(doc.text, PREVIEW_LEN) \o Ellipsis, id |-> doc.id]

\* Faulty variant: documents with an empty text are left out of sources.
AnswerResult_SkipsEmptyText(answer_text, retrieved_docs) ==
    LET shown == SelectSeq(retrieved_docs, LAMBDA d : d.text # <<>>)
    IN  [answer |-> answer_text,
         sources |-> [i \in 1..Len(shown) |->
                        [text |-> Prefix(shown[i].text, PREVIEW_LEN) \o Ellipsis,
                         id |-> shown[i].id]],
         context_count |-> Len(retrieved_docs)]

AnswerResult(answer_text, retrieved_docs) ==
    [answer |-> answer_text,
     sources |-> [i \in 1..Len(retrieved_docs) |-> SourceEntry(retrieved_docs[i])],
     context_count |-> Len(retrieved_docs)]

\* -------------------------------------------------------- backend/main.py
JNull == [null |-> TRUE, int |-> 0]
JInt(n) == [null |-> FALSE, int |-> n]

\* ChatRequest: query, and top_k with its default when the key is absent.
ChatRequest(body) ==
    [kind |-> "chat", query |-> body.query,
     top_k |-> Get(body, "top_k", JInt(REQUEST_TOP_K_DEFAULT))]

\* Python truth of an Optional[int]
Truthy(v) == ~v.null /\ v.int # 0

\* Faulty variant: the records are numbered by their place in the request
\* instead of carrying the caller's id.
DocsWithEmbeddings_IdIsPosition(documents, embeddings) ==
    [i \in 1..Min(Len(documents), Len(embeddings)) |->
        [id |-> i,
         text |-> documents[i].text,
         embedding |-> embeddings[i],
         source |-> Get(documents[i], "source", "unknown")]]

\* Faulty variant: the embeddings are attached in reverse order.
DocsWithEmbeddings_EmbeddingsReversed(documents, embeddings) ==
    [i \in 1..Min(Len(documents), Len(embeddings)) |->
        [id |-> documents[i].id,
         text |-> documents[i].text,
         embedding |-> embeddings[Len(embeddings) + 1 - i],
         source |-> Get(documents[i], "source", "unknown")]]

\* index_documents, the zip loop that attaches the embeddings.
DocsWithEmbeddings(documents, embeddings) ==
    [i \in 1..Min(Len(documents), Len(embeddings)) |->
        [id |-> documents[i].id,
         text |-> documents[i].text,
         embedding |-> embeddings[i],
         source |-> Get(documents[i], "source", "unknown")]]

\* The response a handler gives for the outcome of its body.
HttpError(status, error) ==
    [kind |-> "http", status |-> status, body |-> [detail |-> error.msg, error |-> error]]

ChatResponse(out) ==
    IF out.kind = "return"
    THEN [kind |-> "http", status |-> 200,
          body |-> [answer |-> out.value.answer, sources |-> out.value.sources,
                    context_count |-> out.value.context_count]]
    ELSE IF IsInstance(out.error.exc, "ValueError")
         THEN HttpError(400, out.error)
         ELSE HttpError(500, out.error)

IndexResponse(request, out) ==
    IF out.kind = "return"
    THEN [kind |-> "http", status |-> 200,
          body |-> [status |-> "success",
                    documents_indexed |-> Len(request.documents)]]
    ELSE HttpError(500, out.error)

\* What the caller of thread t's operation receives: an HTTP response from
\* a handler, the value or the exception itself from a direct call.
Outcome(request, out) ==
    CASE request.kind = "chat" -> ChatResponse(out)
      [] request.kind = "index" -> IndexResponse(request, out)
      [] OTHER -> [kind |-> out.kind, status |-> 0,
                   body |-> IF out.kind = "return" THEN [value |-> out.value]
                            ELSE [detail |-> out.error.msg, error |-> out.error]]

\* ------------------------------------------------------------------ state
VARIABLES
    index,       \* the records of the Pinecone index "jarvis"
    index_dim,   \* the dimension the Pinecone index was created with
    rag_engine,  \* main._rag_engine: 0 for None, else the engine object
    engines,     \* the RAGEngine objects constructed so far: their top_k
    started,     \* the startup hook has run
    nreq,        \* requests received so far
    pc,          \* per thread: where its operation stands
    req,         \* per thread: the operation and its arguments
    loc,         \* per thread: the local variables of the running code
    resp,        \* per thread: what the caller received
    calls        \* per thread: the calls made to the external services

vars == <<index, index_dim, rag_engine, engines, started, nreq,
          pc, req, loc, resp, calls>>

NoVector == [dim |-> 0, key |-> 0]
NoLoc == [engine |-> 0, query_embedding |-> NoVector, top_k |-> 0,
          retrieved_docs |-> <<>>,
          docs_with_embeddings |-> <<>>, vectors_to_upsert |-> <<>>, i |-> 0]
NoReq == [kind |-> "none"]
NoResp == [kind |-> "none", status |-> 0, body |-> [detail |-> ""]]

\* Thread t's operation ends with outcome `out` of its body.
Finish(t, out) ==
    /\ resp' = [resp EXCEPT ![t] = Outcome(req[t], out)]
    /\ pc' = [pc EXCEPT ![t] = "done"]

\* A request is handed to the first worker thread that is free.
Free(t) ==
    /\ pc[t] \in {"idle", "done"}
    /\ \A u \in Threads : u < t => pc[u] \notin {"idle", "done"}

\* ------------------------------------------------------------ sample data
T_SKY == <<"s", "k", "y">>
T50 == Rep("a", 50)
T100 == Rep("b", 100)
T101 == Rep("c", 100) \o <<"z">>
T150 == Rep("a", 70) \o Rep("b", 80)

Q_EMPTY == <<>>
Q_BLANK == <<" ", "\t">>
Q_CR == <<"\r">>
Q_NBSP == <<" ", "U+00A0", "\n">>
Q_WHY == <<"w", "h", "y">>
Q_PADDED == <<" ", "a", "b", " ">>

\* A record as upsert_documents stores it.
Stored(id, text, source) ==
    [id |-> id, values |-> embed_text(text),
     metadata |-> [text |-> text, source |-> source]]

\* The bodies of POST /chat requests.
ChatBodies ==
    {[query |-> q] : q \in {Q_EMPTY, Q_BLANK, Q_CR, Q_NBSP, Q_WHY}}
    \cup {[query |-> Q_WHY, top_k |-> k] : k \in {JNull, JInt(0), JInt(1), JInt(2)}}

\* The document lists of POST /index requests: well-formed ones, the empty
\* list, and lists with a document that lacks "text" or "id".
IndexBodies ==
    {<<>>,
     <<[id |-> 1, text |-> T_SKY, source |-> "fact"]>>,
     <<[id |-> 1, text |-> T_SKY, source |-> "fact"], [id |-> 2, text |-> T50]>>,
     <<[id |-> 2, text |-> T101, source |-> "note"]>>,
     <<[id |-> 3, text |-> T_SKY, source |-> "fact"], [id |-> 4, source |-> "fact"]>>,
     <<[id |-> 3, text |-> T_SKY, source |-> "fact"], [text |-> T50]>>,
     <<[text |-> T50], [id |-> 3, text |-> T_SKY, source |-> "fact"]>>}

\* ----------------------------------------------------- get_rag_engine
\* The startup hook: get_rag_engine() before any request is served; a
\* failure is printed and initialisation is left to the first request.
\* When stdout cannot take the message (the pipe is closed, or its
\* encoding has no check mark or warning sign), print raises inside the try
\* block and again in the except block: the hook raises, the application
\* does not start and its worker threads never serve a request.
Startup ==
    /\ ~started
    /\ started' = TRUE
    /\ \/ /\ engines' = Append(engines, [top_k |-> DEFAULT_TOP_K])
          /\ rag_engine' = Len(engines) + 1
       \/ UNCHANGED <<engines, rag_engine>>
    /\ \/ UNCHANGED pc
       \/ pc' = [t \in Threads |-> "down"]
    /\ UNCHANGED <<index, index_dim, nreq, req, loc, resp, calls>>

\* "if _rag_engine is None"
GetEngineCheck(t) ==
    /\ pc[t] = "get_check"
    /\ pc' = [pc EXCEPT ![t] = IF rag_engine = 0 THEN "get_init" ELSE "get_return"]
    /\ UNCHANGED <<index, index_dim, rag_engine, engines, started, nreq, req, loc,
                   resp, calls>>

\* The try block: the clients and the engine are constructed and the global
\* is assigned, or a constructor raises and RuntimeError leaves the function.
GetEngineInit(t) ==
    /\ pc[t] = "get_init"
    /\ \/ /\ engines' = Append(engines, [top_k |-> DEFAULT_TOP_K])
          /\ rag_engine' = Len(engines) + 1
          /\ pc' = [pc EXCEPT ![t] = "get_return"]
          /\ UNCHANGED resp
       \/ /\ Finish(t, Raise(Error("RuntimeError", "Failed to initialize RAG engine")))
          /\ UNCHANGED <<engines, rag_engine>>
    /\ UNCHANGED <<index, index_dim, started, nreq, req, loc, calls>>

\* "return _rag_engine"
GetEngineReturn(t) ==
    /\ pc[t] = "get_return"
    /\ loc' = [loc EXCEPT ![t].engine = rag_engine]
    /\ pc' = [pc EXCEPT ![t] = IF req[t].kind = "chat" THEN "set_top_k"
                                ELSE "upsert_begin"]
    /\ UNCHANGED <<index, index_dim, rag_engine, engines, started, nreq, req,
                   resp, calls>>

\* ---------------------------------------------------------------- /chat
\* Faulty variant: the query is compared with "" without being stripped.
ChatReceive_EmptyOnly(t, body) ==
    /\ started
    /\ Free(t)
    /\ nreq < MaxRequests
    /\ nreq' = nreq + 1
    /\ req' = [req EXCEPT ![t] = ChatRequest(body)]
    /\ loc' = [loc EXCEPT ![t] = NoLoc]
    /\ calls' = [calls EXCEPT ![t] = <<>>]
    /\ IF body.query = <<>>
       THEN /\ resp' = [resp EXCEPT ![t] =
                          HttpError(400, Error("HTTPException", "Query cannot be empty"))]
            /\ pc' = [pc EXCEPT ![t] = "done"]
       ELSE /\ resp' = [resp EXCEPT ![t] = NoResp]
            /\ pc' = [pc EXCEPT ![t] = "get_check"]
    /\ UNCHANGED <<index, index_dim, rag_engine, engines, started>>

\* The request arrives; a query that is empty after strip() is answered 400
\* before the try block.
ChatReceive(t, body) ==
    /\ started
    /\ Free(t)
    /\ nreq < MaxRequests
    /\ nreq' = nreq + 1
    /\ req' = [req EXCEPT ![t] = ChatRequest(body)]
    /\ loc' = [loc EXCEPT ![t] = NoLoc]
    /\ calls' = [calls EXCEPT ![t] = <<>>]
    /\ IF Strip(body.query) = <<>>
       THEN /\ resp' = [resp EXCEPT ![t] =
                          HttpError(400, Error("HTTPException", "Query cannot be empty"))]
            /\ pc' = [pc EXCEPT ![t] = "done"]
       ELSE /\ resp' = [resp EXCEPT ![t] = NoResp]
            /\ pc' = [pc EXCEPT ![t] = "get_check"]
    /\ UNCHANGED <<index, index_dim, rag_engine, engines, started>>

\* "if request.top_k: rag_engine.top_k = request.top_k"
ChatSetTopK(t) ==
    /\ pc[t] = "set_top_k"
    /\ engines' = IF Truthy(req[t].top_k)
                  THEN [engines EXCEPT ![loc[t].engine].top_k = req[t].top_k.int]
                  ELSE engines
    /\ pc' = [pc EXCEPT ![t] = "embed"]
    /\ UNCHANGED <<index, index_dim, rag_engine, started, nreq, req, loc, resp, calls>>

\* ------------------------------------------------------ RAGEngine.answer
\* Faulty variant: the query is embedded a second time before the lookup.
AnswerEmbed_Twice(t) ==
    /\ pc[t] = "embed"
    /\ \/ /\ loc' = [loc EXCEPT ![t].query_embedding = embed_text(req[t].query)]
          /\ calls' = [calls EXCEPT ![t] = @ \o <<[op |-> "embed", ok |-> TRUE],
                                                  [op |-> "embed", ok |-> TRUE]>>]
          /\ pc' = [pc EXCEPT ![t] = "query"]
          /\ UNCHANGED resp
       \/ /\ calls' = [calls EXCEPT ![t] = Append(@, [op |-> "embed", ok |-> FALSE])]
          /\ Finish(t, Raise(Error("RuntimeError", "embedding failed")))
          /\ UNCHANGED loc
    /\ UNCHANGED <<index, index_dim, rag_engine, engines, started, nreq, req>>

\* Step 1: embed_text(query)
AnswerEmbed(t) ==
    /\ pc[t] = "embed"
    /\ \/ /\ loc' = [loc EXCEPT ![t].query_embedding = embed_text(req[t].query)]
          /\ calls' = [calls EXCEPT ![t] = Append(@, [op |-> "embed", ok |-> TRUE])]
          /\ pc' = [pc EXCEPT ![t] = "query"]
          /\ UNCHANGED resp
       \/ /\ calls' = [calls EXCEPT ![t] = Append(@, [op |-> "embed", ok |-> FALSE])]
          /\ Finish(t, Raise(Error("RuntimeError", "embedding failed")))
          /\ UNCHANGED loc
    /\ UNCHANGED <<index, index_dim, rag_engine, engines, started, nreq, req>>

\* Variant in which top_k is a parameter of the call, taken from the request,
\* instead of the field of the shared engine.
AnswerQuery_OwnTopK(t) ==
    /\ pc[t] = "query"
    /\ loc' = [loc EXCEPT ![t].top_k =
                  IF "top_k" \in DOMAIN req[t] /\ Truthy(req[t].top_k)
                  THEN req[t].top_k.int
                  ELSE engines[loc[t].engine].top_k]
    /\ pc' = [pc EXCEPT ![t] = "query_top_k"]
    /\ UNCHANGED <<index, index_dim, rag_engine, engines, started, nreq, req, resp,
                   calls>>

\* Step 2, the call: self.top_k is evaluated as the argument of
\* self.vector_db.query_top_k(query_embedding, top_k=self.top_k), and the
\* thread waits for the index.
AnswerQuery(t) ==
    /\ pc[t] = "query"
    /\ loc' = [loc EXCEPT ![t].top_k = engines[loc[t].engine].top_k]
    /\ pc' = [pc EXCEPT ![t] = "query_top_k"]
    /\ UNCHANGED <<index, index_dim, rag_engine, engines, started, nreq, req, resp,
                   calls>>

\* Faulty variant: when the lookup fails, answer() goes on without context.
QueryTopK_FallsBackToNoContext(t) ==
    /\ pc[t] = "query_top_k"
    /\ LET k == loc[t].top_k
           matches == IndexQuery(index, loc[t].query_embedding, k)
       IN  \/ /\ loc' = [loc EXCEPT ![t].retrieved_docs = FormattedResults(matches)]
              /\ calls' = [calls EXCEPT ![t] =
                             Append(@, [op |-> "query", ok |-> TRUE, top_k |-> k,
                                        vector |-> loc[t].query_embedding,
                                        matches |-> matches])]
           \/ /\ loc' = [loc EXCEPT ![t].retrieved_docs = <<>>]
              /\ calls' = [calls EXCEPT ![t] =
                             Append(@, [op |-> "query", ok |-> FALSE, top_k |-> k,
                                        vector |-> loc[t].query_embedding,
                                        matches |-> <<>>])]
    /\ pc' = [pc EXCEPT ![t] = "generate"]
    /\ UNCHANGED <<index, index_dim, rag_engine, engines, started, nreq, req, resp>>

\* Step 2, the answer: the index serves the query from what it holds at
\* that moment and query_top_k formats the matches, or the call raises and
\* the exception leaves answer().
QueryTopK(t) ==
    /\ pc[t] = "query_top_k"
    /\ LET k == loc[t].top_k
           matches == IndexQuery(index, loc[t].query_embedding, k)
       IN  \/ /\ loc' = [loc EXCEPT ![t].retrieved_docs = FormattedResults(matches)]
              /\ calls' = [calls EXCEPT ![t] =
                             Append(@, [op |-> "query", ok |-> TRUE, top_k |-> k,
                                        vector |-> loc[t].query_embedding,
                                        matches |-> matches])]
              /\ pc' = [pc EXCEPT ![t] = "generate"]
              /\ UNCHANGED resp
           \/ /\ calls' = [calls EXCEPT ![t] =
                             Append(@, [op |-> "query", ok |-> FALSE, top_k |-> k,
                                        vector |-> loc[t].query_embedding,
                                        matches |-> <<>>])]
              /\ Finish(t, Raise(Error("PineconeException", "index unavailable")))
              /\ UNCHANGED loc
    /\ UNCHANGED <<index, index_dim, rag_engine, engines, started, nreq, req>>

\* Faulty variant: without retrieved documents the generator is not called
\* and a fixed answer is returned.
AnswerGenerate_SkipsGeneratorWithoutContext(t) ==
    /\ pc[t] = "generate"
    /\ IF loc[t].retrieved_docs = <<>>
       THEN /\ Finish(t, Return(AnswerResult(<<"?">>, <<>>)))
            /\ UNCHANGED calls
       ELSE \E post \in PostOutcomes :
              LET rag_prompt == BuildRagPrompt(req[t].query, loc[t].retrieved_docs)
                  gen == OllamaGenerate(post)
              IN  /\ calls' = [calls EXCEPT ![t] =
                                 Append(@, [op |-> "generate", ok |-> gen.kind = "return",
                                            prompt |-> rag_prompt,
                                            temperature |-> TEMPERATURE,
                                            max_tokens |-> MAX_TOKENS,
                                            timeout |-> GENERATE_TIMEOUT,
                                            post |-> post])]
                  /\ IF gen.kind = "return"
                     THEN Finish(t, Return(AnswerResult(gen.value, loc[t].retrieved_docs)))
                     ELSE Finish(t, gen)
    /\ UNCHANGED <<index, index_dim, rag_engine, engines, started, nreq, req, loc>>

\* Steps 3 to 5, given what requests.post does: the prompt is built, the
\* generator is called, the result is returned or the generator's exception
\* leaves answer().
AnswerGenerateWith(t, post) ==
    /\ pc[t] = "generate"
    /\ LET rag_prompt == BuildRagPrompt(req[t].query, loc[t].retrieved_docs)
           gen == OllamaGenerate(post)
       IN  /\ calls' = [calls EXCEPT ![t] =
                          Append(@, [op |-> "generate", ok |-> gen.kind = "return",
                                     prompt |-> rag_prompt,
                                     temperature |-> TEMPERATURE,
                                     max_tokens |-> MAX_TOKENS,
                                     timeout |-> GENERATE_TIMEOUT,
                                     post |-> post])]
           /\ IF gen.kind = "return"
              THEN Finish(t, Return(AnswerResult(gen.value, loc[t].retrieved_docs)))
              ELSE Finish(t, gen)
    /\ UNCHANGED <<index, index_dim, rag_engine, engines, started, nreq, req, loc>>

AnswerGenerate(t) == \E post \in PostOutcomes : AnswerGenerateWith(t, post)

\* --------------------------------------------------------------- /index
\* Python raises KeyError at the first document without the key.
HasKey(documents, key) == \A i \in 1..Len(documents) : key \in DOMAIN documents[i]

\* The request arrives; inside the try block the empty list raises
\* ValueError and texts = [doc["text"] ...] raises KeyError.
IndexReceive(t, documents) ==
    /\ started
    /\ Free(t)
    /\ nreq < MaxRequests
    /\ nreq' = nreq + 1
    /\ req' = [req EXCEPT ![t] = [kind |-> "index", documents |-> documents]]
    /\ loc' = [loc EXCEPT ![t] = NoLoc]
    /\ calls' = [calls EXCEPT ![t] = <<>>]
    /\ LET request == [kind |-> "index", documents |-> documents]
       IN  IF Len(documents) = 0
           THEN /\ resp' = [resp EXCEPT ![t] = Outcome(request,
                               Raise(Error("ValueError", "Documents list cannot be empty")))]
                /\ pc' = [pc EXCEPT ![t] = "done"]
           ELSE IF ~HasKey(documents, "text")
           THEN /\ resp' = [resp EXCEPT ![t] = Outcome(request,
                               Raise(Error("KeyError", "'text'")))]
                /\ pc' = [pc EXCEPT ![t] = "done"]
           ELSE /\ resp' = [resp EXCEPT ![t] = NoResp]
                /\ pc' = [pc EXCEPT ![t] = "embed_batch"]
    /\ UNCHANGED <<index, index_dim, rag_engine, engines, started>>

\* Faulty variant: the documents are written to the index one by one as the
\* loop reaches them, so those before a document without "id" are stored.
IndexEmbed_WritesAsItGoes(t) ==
    /\ pc[t] = "embed_batch"
    /\ LET documents == req[t].documents
           texts == [i \in 1..Len(documents) |-> documents[i].text]
           bad == {i \in 1..Len(documents) : "id" \notin DOMAIN documents[i]}
       IN  /\ calls' = [calls EXCEPT ![t] =
                          Append(@, [op |-> "embed_batch", ok |-> TRUE, texts |-> texts])]
           /\ IF bad = {}
              THEN /\ loc' = [loc EXCEPT ![t].docs_with_embeddings =
                                 DocsWithEmbeddings(documents, embed_batch(texts))]
                   /\ pc' = [pc EXCEPT ![t] = "get_check"]
                   /\ UNCHANGED <<resp, index>>
              ELSE /\ index' = IndexUpsert(index, VectorsToUpsert(
                          DocsWithEmbeddings(SubSeq(documents, 1, SetMin(bad) - 1),
                                             embed_batch(texts))))
                   /\ Finish(t, Raise(Error("KeyError", "'id'")))
                   /\ UNCHANGED loc
    /\ UNCHANGED <<index_dim, rag_engine, engines, started, nreq, req>>

\* embed_batch(texts), then the zip loop, where doc["id"] raises KeyError.
IndexEmbed(t) ==
    /\ pc[t] = "embed_batch"
    /\ LET documents == req[t].documents
           texts == [i \in 1..Len(documents) |-> documents[i].text]
       IN  \/ /\ calls' = [calls EXCEPT ![t] =
                             Append(@, [op |-> "embed_batch", ok |-> TRUE,
                                        texts |-> texts])]
              /\ IF HasKey(documents, "id")
                 THEN /\ loc' = [loc EXCEPT ![t].docs_with_embeddings =
                                    DocsWithEmbeddings(documents, embed_batch(texts))]
                      /\ pc' = [pc EXCEPT ![t] = "get_check"]
                      /\ UNCHANGED resp
                 ELSE /\ Finish(t, Raise(Error("KeyError", "'id'")))
                      /\ UNCHANGED loc
           \/ /\ calls' = [calls EXCEPT ![t] =
                             Append(@, [op |-> "embed_batch", ok |-> FALSE,
                                        texts |-> texts])]
              /\ Finish(t, Raise(Error("RuntimeError", "embedding failed")))
              /\ UNCHANGED loc
    /\ UNCHANGED <<index, index_dim, rag_engine, engines, started, nreq, req>>

\* ------------------------------------ PineconeVectorDB.upsert_documents
\* The first loop: vectors_to_upsert is built from the documents passed.
\* (The log notes the entry into upsert_documents and what the index held.)
UpsertBegin(t) ==
    /\ pc[t] = "upsert_begin"
    /\ loc' = [loc EXCEPT ![t].vectors_to_upsert =
                              VectorsToUpsert(loc[t].docs_with_embeddings),
                          ![t].i = 0]
    /\ calls' = [calls EXCEPT ![t] =
                   Append(@, [op |-> "upsert_documents", ok |-> TRUE, index |-> index])]
    /\ pc' = [pc EXCEPT ![t] = "upsert_chunk"]
    /\ UNCHANGED <<index, index_dim, rag_engine, engines, started, nreq, req, resp>>

\* The Pinecone index refuses a request that holds a vector of another
\* dimension than its own.
DimensionsFit(batch) == \A j \in 1..Len(batch) : batch[j][2].dim = index_dim

\* Faulty variant of the loop: a batch that fails is skipped and the loop
\* goes on with the next one.
UpsertChunk_SkipsFailedBatch(t) ==
    /\ pc[t] = "upsert_chunk"
    /\ loc[t].i < Len(loc[t].vectors_to_upsert)
    /\ LET batch == UpsertBatch(loc[t].vectors_to_upsert, loc[t].i)
       IN  \/ /\ DimensionsFit(batch)
              /\ index' = IndexUpsert(index, batch)
              /\ calls' = [calls EXCEPT ![t] =
                             Append(@, [op |-> "upsert", ok |-> TRUE, vectors |-> batch])]
           \/ /\ calls' = [calls EXCEPT ![t] =
                             Append(@, [op |-> "upsert", ok |-> FALSE, vectors |-> batch])]
              /\ UNCHANGED index
    /\ loc' = [loc EXCEPT ![t].i = @ + BATCH_SIZE]
    /\ UNCHANGED <<index_dim, rag_engine, engines, started, nreq, req, pc, resp>>

\* One pass of "for i in range(0, len(vectors_to_upsert), batch_size)":
\* the slice is submitted; the index takes it, or the call raises and the
\* exception leaves upsert_documents.
UpsertChunk(t) ==
    /\ pc[t] = "upsert_chunk"
    /\ loc[t].i < Len(loc[t].vectors_to_upsert)
    /\ LET batch == UpsertBatch(loc[t].vectors_to_upsert, loc[t].i)
       IN  \/ /\ DimensionsFit(batch)
              /\ index' = IndexUpsert(index, batch)
              /\ calls' = [calls EXCEPT ![t] =
                             Append(@, [op |-> "upsert", ok |-> TRUE, vectors |-> batch])]
              /\ loc' = [loc EXCEPT ![t].i = @ + BATCH_SIZE]
              /\ UNCHANGED <<pc, resp>>
           \/ /\ calls' = [calls EXCEPT ![t] =
                             Append(@, [op |-> "upsert", ok |-> FALSE, vectors |-> batch])]
              /\ Finish(t, Raise(IF DimensionsFit(batch)
                                 THEN Error("PineconeException", "index unavailable")
                                 ELSE Error("PineconeApiException", "dimension mismatch")))
              /\ UNCHANGED <<index, loc>>
    /\ UNCHANGED <<index_dim, rag_engine, engines, started, nreq, req>>

\* What print does with a message that holds a check mark: it writes it,
\* or it raises because the reader of stdout is gone or because the encoding
\* of stdout has no such character.
PrintOutcomes ==
    {Return("None"),
     Raise(Error("BrokenPipeError", "[Errno 32] Broken pipe")),
     Raise(Error("UnicodeEncodeError", "codec can't encode character"))}

\* The loop is over: the count is printed, upsert_documents returns None
\* and index_documents returns its success body; or print raises and the
\* exception leaves upsert_documents after every batch was written.
UpsertReturn(t) ==
    /\ pc[t] = "upsert_chunk"
    /\ loc[t].i >= Len(loc[t].vectors_to_upsert)
    /\ \E printed \in PrintOutcomes :
         /\ calls' = [calls EXCEPT ![t] =
                        Append(@, [op |-> "print", ok |-> printed.kind = "return"])]
         /\ Finish(t, printed)
    /\ UNCHANGED <<index, index_dim, rag_engine, engines, started, nreq, req, loc>>

\* ------------------------------------------------------ the whole server
\* The module is loaded, the index holds what earlier runs left in it.
SampleIndex ==
    {Stored(1, T_SKY, "fact"), Stored(5, T50, "unknown"), Stored(6, T100, "note"),
     Stored(7, T101, "note"), Stored(8, T150, "fact"), Stored(9, T_SKY, "copy")}

Init ==
    /\ index \in {{}, SampleIndex}
    /\ index_dim = EMBEDDING_DIMENSION
    /\ rag_engine = 0
    /\ engines = <<>>
    /\ started = FALSE
    /\ nreq = 0
    /\ pc = [t \in Threads |-> "idle"]
    /\ req = [t \in Threads |-> NoReq]
    /\ loc = [t \in Threads |-> NoLoc]
    /\ resp = [t \in Threads |-> NoResp]
    /\ calls = [t \in Threads |-> <<>>]

\* No request is being handled.
Quiet == \A t \in Threads : pc[t] \in {"idle", "done"}

\* The server with its requests arriving one after the other: a request is
\* received when the one before it has been answered.
Next ==
    \/ Startup
    \/ \E t \in Threads :
         \/ \E body \in ChatBodies : Quiet /\ ChatReceive(t, body)
         \/ \E documents \in IndexBodies : Quiet /\ IndexReceive(t, documents)
         \/ GetEngineCheck(t)
         \/ GetEngineInit(t)
         \/ GetEngineReturn(t)
         \/ ChatSetTopK(t)
         \/ AnswerEmbed(t)
         \/ AnswerQuery(t)
         \/ QueryTopK(t)
         \/ AnswerGenerate(t)
         \/ IndexEmbed(t)
         \/ UpsertBegin(t)
         \/ UpsertChunk(t)
         \/ UpsertReturn(t)

Spec == Init /\ [][Next]_vars

\* ------------------------------------------- direct calls of answer()
\* What the index may hold when answer() is called: records written by
\* upsert_documents, and one written by another tool without metadata.
AnswerCorpus ==
    {Stored(1, T_SKY, "fact"), Stored(2, T50, "unknown"), Stored(3, T100, "note"),
     Stored(4, T101, "note"), Stored(5, T150, "fact"),
     [id |-> 6, values |-> [dim |-> EMBEDDING_DIMENSION, key |-> 2], metadata |-> <<>>]}

\* RAGEngine.answer(query) is called directly on an engine with any top_k
\* from 1 to MaxTopK, over any index drawn from the corpus.
InitAnswer ==
    /\ index \in SUBSET AnswerCorpus
    /\ index_dim = EMBEDDING_DIMENSION
    /\ rag_engine = 1
    /\ \E k \in 1..MaxTopK : engines = <<[top_k |-> k]>>
    /\ started = TRUE
    /\ nreq = 1
    /\ pc = [t \in Threads |-> IF t = 1 THEN "embed" ELSE "idle"]
    /\ \E q \in {Q_WHY, Q_PADDED} :
         req = [t \in Threads |-> IF t = 1 THEN [kind |-> "answer", query |-> q]
                                  ELSE NoReq]
    /\ loc = [t \in Threads |-> IF t = 1 THEN [NoLoc EXCEPT !.engine = 1] ELSE NoLoc]
    /\ resp = [t \in Threads |-> NoResp]
    /\ calls = [t \in Threads |-> <<>>]

NextAnswer ==
    \E t \in Threads :
        AnswerEmbed(t) \/ AnswerQuery(t) \/ QueryTopK(t) \/ AnswerGenerate(t)

SpecAnswer == InitAnswer /\ [][NextAnswer]_vars

\* ---------------------------------- direct calls of upsert_documents()
\* Records beyond two full batches in the longest list tried.
TailLen == 50

BatchLens ==
    {0, 1, BATCH_SIZE - 1, BATCH_SIZE, BATCH_SIZE + 1, 2 * BATCH_SIZE,
     2 * BATCH_SIZE + TailLen}

OTHER_DIMENSION == 768

\* A document with its embedding, as the caller of upsert_documents passes
\* it; every second one comes without "source".
BulkDoc(id, dim) ==
    IF id % 2 = 0
    THEN [id |-> id, text |-> <<"t">>, embedding |-> [dim |-> dim, key |-> id % KeyMod]]
    ELSE [id |-> id, text |-> <<"t">>, embedding |-> [dim |-> dim, key |-> id % KeyMod],
          source |-> "bulk"]

\* n documents with the ids first .. first+n-1; the vectors have dimension
\* dim, but for the one at position odd (if any), which has the other one.
BulkDocs(n, first, dim, odd) ==
    [i \in 1..n |-> BulkDoc(first + i - 1,
                            IF i # odd THEN dim
                            ELSE IF dim = EMBEDDING_DIMENSION THEN OTHER_DIMENSION
                                 ELSE EMBEDDING_DIMENSION)]

\* Records an earlier run left in an index of dimension dim.
OldRecords(dim) ==
    {[id |-> id, values |-> [dim |-> dim, key |-> 0],
      metadata |-> [text |-> <<"o", "l", "d">>, source |-> "old"]] :
       id \in {1, BATCH_SIZE, BATCH_SIZE + TailLen, 1000}}

\* upsert_documents(documents, embedding_dimension=384) is called directly
\* on the wrapper of an index of either dimension.
InitUpsert ==
    /\ index_dim \in {EMBEDDING_DIMENSION, OTHER_DIMENSION}
    /\ index \in {{}, OldRecords(index_dim)}
    /\ rag_engine = 1
    /\ engines = <<[top_k |-> DEFAULT_TOP_K]>>
    /\ started = TRUE
    /\ nreq = 1
    /\ pc = [t \in Threads |-> IF t = 1 THEN "upsert_begin" ELSE "idle"]
    /\ \E n \in BatchLens, first \in {1, TailLen + 1},
          dim \in {EMBEDDING_DIMENSION, OTHER_DIMENSION},
          odd \in {0, 1, BATCH_SIZE + TailLen} :
         /\ req = [t \in Threads |->
                     IF t = 1 THEN [kind |-> "upsert",
                                    embedding_dimension |-> EMBEDDING_DIMENSION,
                                    documents |-> BulkDocs(n, first, dim, odd)]
                     ELSE NoReq]
         /\ loc = [t \in Threads |->
                     IF t = 1 THEN [NoLoc EXCEPT !.engine = 1,
                                       !.docs_with_embeddings = BulkDocs(n, first, dim, odd)]
                     ELSE NoLoc]
    /\ resp = [t \in Threads |-> NoResp]
    /\ calls = [t \in Threads |-> <<>>]

NextUpsert == \E t \in Threads : UpsertBegin(t) \/ UpsertChunk(t) \/ UpsertReturn(t)

SpecUpsert == InitUpsert /\ [][NextUpsert]_vars

\* ------------------------------------------ requests handled concurrently
\* Requests the server receives while others are still being handled.
ConcurrentRequests == 2

\* The /chat bodies and the /index list sent concurrently.
ConcurrentChatBodies == {[query |-> Q_WHY, top_k |-> JInt(k)] : k \in {1, 2}}
ConcurrentIndexBodies == {<<[id |-> 2, text |-> T50]>>}

\* What the generator does meanwhile: it answers, or it cannot be reached.
ConcurrentPostOutcomes ==
    {post \in PostOutcomes :
        \/ /\ post.kind = "response" /\ post.status = 200 /\ post.parsed = "object"
           /\ Get(post.json, "response", JNone).type = "str"
        \/ post.kind = "raise" /\ post.exc = "ConnectionError"}

\* The server with its sync handlers running on the worker threads: a
\* request is received whenever a worker is free, and the steps of the
\* requests in progress interleave.
InitConcurrent ==
    /\ index = SampleIndex
    /\ index_dim = EMBEDDING_DIMENSION
    /\ rag_engine = 0
    /\ engines = <<>>
    /\ started = FALSE
    /\ nreq = 0
    /\ pc = [t \in Threads |-> "idle"]
    /\ req = [t \in Threads |-> NoReq]
    /\ loc = [t \in Threads |-> NoLoc]
    /\ resp = [t \in Threads |-> NoResp]
    /\ calls = [t \in Threads |-> <<>>]

NextConcurrent ==
    \/ Startup
    \/ \E t \in Threads :
         \/ \E body \in ConcurrentChatBodies :
               nreq < ConcurrentRequests /\ ChatReceive(t, body)
         \/ \E documents \in ConcurrentIndexBodies :
               nreq < ConcurrentRequests /\ IndexReceive(t, documents)
         \/ GetEngineCheck(t)
         \/ GetEngineInit(t)
         \/ GetEngineReturn(t)
         \/ ChatSetTopK(t)
         \/ AnswerEmbed(t)
         \/ AnswerQuery(t)
         \/ QueryTopK(t)
         \/ \E post \in ConcurrentPostOutcomes : AnswerGenerateWith(t, post)
         \/ IndexEmbed(t)
         \/ UpsertBegin(t)
         \/ UpsertChunk(t)
         \/ UpsertReturn(t)

SpecConcurrent == InitConcurrent /\ [][NextConcurrent]_vars

\* ======================================================================
\* Properties
\* ======================================================================
\* The calls of kind op that thread t has made, in order.
CallsOf(t, op) == SelectSeq(calls[t], LAMBDA c : c.op = op)

\* answer() was called directly by thread t and has returned a result.
Answered(t) == pc[t] = "done" /\ req[t].kind = "answer" /\ resp[t].kind = "return"

\* The result answer() returned to thread t, the matches the index gave to
\* its query and the prompt its generator call was given.
ResultOf(t) == resp[t].body.value
MatchesOf(t) == CallsOf(t, "query")[1].matches
PromptOf(t) == CallsOf(t, "generate")[1].prompt

\* C1: a successful answer(query) returns context_count equal to the number
\* of entries of sources, and both equal the number of matches the index
\* returned to the query of that call.
C1_ContextCountIsSourcesIsMatches ==
    \A t \in Threads :
        Answered(t) =>
            /\ ResultOf(t).context_count = Len(ResultOf(t).sources)
            /\ ResultOf(t).context_count = Len(MatchesOf(t))

\* An answer over three matches, one of them a record without metadata.
C1_Witness ==
    \E t \in Threads :
        /\ Answered(t)
        /\ ResultOf(t).context_count = 3
        /\ \E i \in 1..3 : MatchesOf(t)[i].id = 6

\* C2: the i-th source and the i-th numbered document of the prompt carry
\* the id, the text and the source label of the i-th match of the index
\* query, so both are in non-increasing score order; no match is reordered,
\* dropped or duplicated.
C2_SourcesAndPromptFollowMatches ==
    \A t \in Threads :
        (req[t].kind = "answer" /\ CallsOf(t, "generate") # <<>>) =>
            LET matches == MatchesOf(t)
                context == PromptOf(t).context
                textOf(i) == Get(matches[i].metadata, "text", <<>>)
            IN  /\ Len(context) = Len(matches)
                /\ \A i \in 1..Len(matches) :
                      /\ context[i].number = i
                      /\ context[i].text = textOf(i)
                      /\ context[i].source = Get(matches[i].metadata, "source", "unknown")
                /\ \A i, j \in 1..Len(matches) :
                      i < j => matches[i].score >= matches[j].score
                /\ Answered(t) =>
                      /\ Len(ResultOf(t).sources) = Len(matches)
                      /\ \A i \in 1..Len(matches) :
                            /\ ResultOf(t).sources[i].id = matches[i].id
                            /\ SubSeq(ResultOf(t).sources[i].text, 1,
                                      Min(PREVIEW_LEN, Len(textOf(i))))
                                 = SubSeq(textOf(i), 1, Min(PREVIEW_LEN, Len(textOf(i))))
                      /\ \A i, j \in 1..Len(matches) :
                            i < j => ResultOf(t).sources[i].id # ResultOf(t).sources[j].id

\* An answer whose matches have three different scores and are not in the
\* order of their ids.
C2_Witness ==
    \E t \in Threads :
        /\ Answered(t)
        /\ Len(MatchesOf(t)) >= 3
        /\ MatchesOf(t)[1].score > MatchesOf(t)[2].score
        /\ MatchesOf(t)[2].score > MatchesOf(t)[3].score
        /\ ResultOf(t).sources[1].id > ResultOf(t).sources[2].id

\* C6: over an index of n records and for top_k = k >= 1, query_top_k
\* returns exactly min(k, n) documents: never more than k, all the records
\* when n < k, the empty list when the index is empty.
C6_QueryReturnsMinOfKAndN ==
    \A t \in Threads :
        (req[t].kind = "answer" /\ CallsOf(t, "query") # <<>>
            /\ CallsOf(t, "query")[1].ok /\ CallsOf(t, "query")[1].top_k >= 1) =>
            LET k == CallsOf(t, "query")[1].top_k
                n == Cardinality(index)
                returned == loc[t].retrieved_docs
            IN  /\ Len(returned) = Min(k, n)
                /\ Len(returned) <= k
                /\ n < k => {returned[i].id : i \in 1..Len(returned)}
                               = {r.id : r \in index}
                /\ n = 0 => returned = <<>>

\* A query with top_k = 2 over an index of five records returns two.
C6_Witness ==
    \E t \in Threads :
        /\ req[t].kind = "answer" /\ pc[t] = "generate"
        /\ CallsOf(t, "query")[1].top_k = 2
        /\ Cardinality(index) = 5
        /\ Len(loc[t].retrieved_docs) = 2

\* The two other cases of C6: fewer records than top_k, and the empty index.
C6_WitnessFewer ==
    \E t \in Threads :
        /\ req[t].kind = "answer" /\ pc[t] = "generate"
        /\ CallsOf(t, "query")[1].top_k = 5
        /\ Cardinality(index) = 3
        /\ Len(loc[t].retrieved_docs) = 3

C6_WitnessEmpty ==
    \E t \in Threads :
        /\ req[t].kind = "answer" /\ pc[t] = "generate"
        /\ CallsOf(t, "query")[1].ok
        /\ index = {}
        /\ loc[t].retrieved_docs = <<>>

\* C7: the text of every source is the first min(100, len) characters of
\* the match's text followed by "...", whatever the length of the text.
C7_SourceTextIsPrefixPlusMarker ==
    \A t \in Threads :
        Answered(t) =>
            \A i \in 1..Len(MatchesOf(t)) :
                LET text == Get(MatchesOf(t)[i].metadata, "text", <<>>)
                    shown == ResultOf(t).sources[i].text
                    cut == IF Len(text) < 100 THEN Len(text) ELSE 100
                IN  /\ Len(shown) = cut + 3
                    /\ \A j \in 1..cut : shown[j] = text[j]
                    /\ \A j \in (cut + 1)..(cut + 3) : shown[j] = "."

\* An answer whose sources show the 50-character text as 53 characters and
\* the 101-character text as 103.
C7_Witness ==
    \E t \in Threads :
        /\ Answered(t)
        /\ \E i \in 1..Len(MatchesOf(t)) :
              /\ MatchesOf(t)[i].metadata = [text |-> T50, source |-> "unknown"]
              /\ ResultOf(t).sources[i].text = T50 \o <<".", ".", ".">>
              /\ Len(ResultOf(t).sources[i].text) = 53
        /\ \E i \in 1..Len(MatchesOf(t)) :
              /\ MatchesOf(t)[i].id = 4
              /\ Len(ResultOf(t).sources[i].text) = 103
              /\ ResultOf(t).sources[i].text[100] = "c"
              /\ ResultOf(t).sources[i].text[101] = "."

\* ------------------------------------------------------ upsert_documents
\* upsert_documents was called directly by thread t.
Upserting(t) == req[t].kind = "upsert" /\ CallsOf(t, "upsert_documents") # <<>>

\* The index when thread t entered upsert_documents, the batches it has
\* submitted since, and the records of the first m of them.
IndexAtEntry(t) == CallsOf(t, "upsert_documents")[1].index
Submitted(t) == CallsOf(t, "upsert")

RECURSIVE RecordsBefore(_, _)
RecordsBefore(batches, m) ==
    IF m <= 1 THEN 0 ELSE RecordsBefore(batches, m - 1) + Len(batches[m - 1].vectors)

\* The batches are consecutive pieces of the list `whole`, in its order.
ConsecutivePieces(batches, whole) ==
    \A m \in 1..Len(batches) :
        /\ RecordsBefore(batches, m) + Len(batches[m].vectors) <= Len(whole)
        /\ \A p \in 1..Len(batches[m].vectors) :
              batches[m].vectors[p] = whole[RecordsBefore(batches, m) + p]

\* C8: when no batch fails, every record is submitted exactly once, in
\* input order, in batches of 1 to 100 records, and the index ends as if the
\* whole list had been upserted in one call, whether or not the count
\* could be printed afterwards.
C8_ChunkedUpsertEqualsWhole ==
    \A t \in Threads :
        (Upserting(t) /\ pc[t] = "done" /\ CallsOf(t, "print") # <<>>) =>
            LET whole == loc[t].vectors_to_upsert
                batches == Submitted(t)
            IN  /\ Len(whole) = Len(req[t].documents)
                /\ \A m \in 1..Len(batches) :
                      /\ batches[m].ok
                      /\ Len(batches[m].vectors) >= 1
                      /\ Len(batches[m].vectors) <= 100
                /\ ConsecutivePieces(batches, whole)
                /\ RecordsBefore(batches, Len(batches) + 1) = Len(whole)
                /\ index = IndexUpsert(IndexAtEntry(t), whole)

\* 250 records went in as batches of 100, 100 and 50 over an index that
\* held records with some of their ids.
C8_Witness ==
    \E t \in Threads :
        /\ Upserting(t) /\ pc[t] = "done" /\ resp[t].kind = "return"
        /\ Len(req[t].documents) = 250
        /\ Len(Submitted(t)) = 3
        /\ Len(Submitted(t)[3].vectors) = 50
        /\ IndexAtEntry(t) # {}
        /\ Cardinality(index) = 251

\* The other lengths of C8: the empty list (no batch at all), exactly one
\* full batch, and two full batches.
C8_WitnessEmpty ==
    \E t \in Threads :
        /\ Upserting(t) /\ pc[t] = "done" /\ resp[t].kind = "return"
        /\ req[t].documents = <<>> /\ Submitted(t) = <<>>

\* Every batch was written and the print of the count raised: the call
\* fails although the index holds the whole list.
C8_WitnessPrintRaises ==
    \E t \in Threads :
        /\ Upserting(t) /\ pc[t] = "done" /\ resp[t].kind = "raise"
        /\ Len(Submitted(t)) = 3 /\ Submitted(t)[3].ok
        /\ CallsOf(t, "print") # <<>>
        /\ index = IndexUpsert(IndexAtEntry(t), loc[t].vectors_to_upsert)

C8_WitnessFull ==
    \E t \in Threads :
        /\ Upserting(t) /\ pc[t] = "done" /\ resp[t].kind = "return"
        /\ Len(req[t].documents) = 100 /\ Len(Submitted(t)) = 1

C8_WitnessTwoFull ==
    \E t \in Threads :
        /\ Upserting(t) /\ pc[t] = "done" /\ resp[t].kind = "return"
        /\ Len(req[t].documents) = 200 /\ Len(Submitted(t)) = 2

\* C9: when the index fails on batch j, batches 1..j-1 stay in the index,
\* batch j was tried once and is not in it, no later batch is submitted,
\* nothing is retried, and the failure reaches the caller.
C9_FailedBatchStopsTheUpsert ==
    \A t \in Threads :
        Upserting(t) =>
            LET whole == loc[t].vectors_to_upsert
                batches == Submitted(t)
                j == Len(batches)
            IN  /\ ConsecutivePieces(batches, whole)
                /\ \A m \in 1..(j - 1) : batches[m].ok /\ Len(batches[m].vectors) = 100
                /\ (j > 0 /\ ~batches[j].ok) =>
                      /\ pc[t] = "done"
                      /\ resp[t].kind = "raise"
                      /\ index = IndexUpsert(IndexAtEntry(t), SubSeq(whole, 1, 100 * (j - 1)))
                      /\ \A p \in (100 * (j - 1) + 1)..Len(whole) :
                            \A r \in index : r.id = whole[p][1] => r \in IndexAtEntry(t)

\* The index became unreachable on the third of three batches: two are in.
C9_Witness ==
    \E t \in Threads :
        /\ Upserting(t) /\ pc[t] = "done" /\ resp[t].kind = "raise"
        /\ resp[t].body.error.msg = "index unavailable"
        /\ Len(Submitted(t)) = 3
        /\ ~Submitted(t)[3].ok
        /\ Cardinality(index) = 200
        /\ Len(req[t].documents) = 250

\* C5 (as claimed): if a record's vector length differs from the
\* embedding_dimension argument, upsert_documents fails with a dimension
\* error and the record is not written.  (Runs in which the index was
\* unreachable or the final message could not be printed are left aside.)
C5_VectorLengthIsValidated ==
    \A t \in Threads :
        (Upserting(t) /\ pc[t] = "done"
            /\ (\A m \in 1..Len(CallsOf(t, "print")) : CallsOf(t, "print")[m].ok)
            /\ (\A m \in 1..Len(Submitted(t)) :
                  (Submitted(t)[m].ok \/ ~DimensionsFit(Submitted(t)[m].vectors)))
            /\ (\E i \in 1..Len(req[t].documents) :
                  req[t].documents[i].embedding.dim # req[t].embedding_dimension)) =>
            /\ resp[t].kind = "raise"
            /\ resp[t].body.error.msg = "dimension mismatch"
            /\ \A i \in 1..Len(req[t].documents) :
                  req[t].documents[i].embedding.dim # req[t].embedding_dimension =>
                      \A r \in index : r.id = req[t].documents[i].id => r \in IndexAtEntry(t)

\* ------------------------------------------------------------ POST /index
\* POST /index was handled by thread t and has been answered.
IndexAnswered(t) == pc[t] = "done" /\ req[t].kind = "index"

\* C3 (as claimed): a batch of N > 0 documents is answered with
\* documents_indexed = N when every backend succeeds, and the empty batch is
\* rejected as the caller's fault (a 4xx status) before any call is made.
C3_IndexCountsOrRejectsAsCallerFault ==
    \A t \in Threads :
        IndexAnswered(t) =>
            LET documents == req[t].documents
            IN  /\ Len(documents) = 0 =>
                      /\ resp[t].status >= 400 /\ resp[t].status <= 499
                      /\ calls[t] = <<>>
                /\ (Len(documents) > 0
                       /\ HasKey(documents, "text") /\ HasKey(documents, "id")
                       /\ (\A m \in 1..Len(calls[t]) :
                              calls[t][m].op # "print" => calls[t][m].ok)
                       /\ Get(resp[t].body, "detail", "") # "Failed to initialize RAG engine") =>
                      /\ resp[t].status = 200
                      /\ resp[t].body.documents_indexed = Len(documents)

\* The record that indexing document d leaves in the index.
RecordOf(d) == Stored(d.id, d.text, Get(d, "source", "unknown"))

\* C4: after a document is indexed the index holds exactly one record with
\* its id, with the content the document determines; indexing it again when
\* that record is still there leaves the records of that id as they were,
\* and the records of other ids are not touched.
C4_ReindexingKeepsOneRecord ==
    /\ \A r1, r2 \in index : r1.id = r2.id => r1 = r2
    /\ \A t \in Threads :
          (IndexAnswered(t) /\ resp[t].status = 200) =>
              LET documents == req[t].documents
                  ids == {documents[i].id : i \in 1..Len(documents)}
              IN  /\ \A i \in 1..Len(documents) :
                        LET now == {r \in index : r.id = documents[i].id}
                            before == {r \in IndexAtEntry(t) : r.id = documents[i].id}
                        IN  /\ Cardinality(now) = 1
                            /\ now = {RecordOf(documents[i])}
                            /\ RecordOf(documents[i]) \in before => now = before
                  /\ \A r \in IndexAtEntry(t) : r.id \notin ids => r \in index

\* Starting from the empty index, document 1 was indexed, then document 2,
\* then document 1 again.
C4_Witness ==
    \E t \in Threads :
        /\ IndexAnswered(t) /\ resp[t].status = 200
        /\ nreq = 3
        /\ req[t].documents = <<[id |-> 1, text |-> T_SKY, source |-> "fact"]>>
        /\ IndexAtEntry(t) = {Stored(1, T_SKY, "fact"), Stored(2, T101, "note")}
        /\ index = IndexAtEntry(t)

\* --------------------------------------------------- generator timeout
\* C10 (as claimed): when the generator call exceeds its timeout, answer()
\* raises a timeout condition that differs from the one raised when the
\* generator cannot be reached, and the embedding, the index query and the
\* generation have each been executed exactly once.
C10_TimeoutIsItsOwnCondition ==
    \A t \in Threads :
        (pc[t] = "done" /\ req[t].kind = "answer" /\ CallsOf(t, "generate") # <<>>
            /\ CallsOf(t, "generate")[1].post.kind = "raise"
            /\ CallsOf(t, "generate")[1].post.exc \in {"ConnectTimeout", "ReadTimeout"}) =>
            /\ resp[t].kind = "raise"
            /\ resp[t].body.error
                 # OllamaGenerate([kind |-> "raise", exc |-> "ConnectionError"]).error
            /\ Len(CallsOf(t, "embed")) = 1
            /\ Len(CallsOf(t, "query")) = 1
            /\ Len(CallsOf(t, "generate")) = 1

\* ------------------------------------------------------------ POST /chat
\* A step in which thread t receives a /chat request.
ChatReceivedBy(t) == nreq' = nreq + 1 /\ Free(t) /\ req'[t].kind = "chat"

\* C11: a /chat request whose query is empty or only whitespace is answered
\* 400 in the step that receives it: the engine is not obtained or built, no
\* call reaches the embedder, the index or the generator, and the top_k of
\* the shared engine and the index stay as they were.
C11_BlankQueryIsRejectedFirst ==
    [][\A t \in Threads :
          (ChatReceivedBy(t)
              /\ \A i \in 1..Len(req'[t].query) : req'[t].query[i] \in Whitespace) =>
              /\ pc'[t] = "done"
              /\ resp'[t].status = 400
              /\ resp'[t].body.detail = "Query cannot be empty"
              /\ calls'[t] = <<>>
              /\ loc'[t].engine = 0
              /\ engines' = engines
              /\ rag_engine' = rag_engine
              /\ index' = index]_vars

\* A whitespace-only query was answered 400 after an earlier request had set
\* the engine's top_k to 2, and the engine still holds 2.
C11_Witness ==
    \E t \in Threads :
        /\ pc[t] = "done" /\ req[t].kind = "chat"
        /\ req[t].query = Q_BLANK
        /\ resp[t].status = 400
        /\ calls[t] = <<>>
        /\ nreq >= 2
        /\ rag_engine = 1
        /\ engines[1].top_k = 2

\* The same for the empty string, for a carriage return, and for a query
\* with a no-break space.
C11_WitnessEmpty ==
    \E t \in Threads :
        /\ pc[t] = "done" /\ req[t].kind = "chat"
        /\ req[t].query = Q_EMPTY
        /\ resp[t].status = 400

C11_WitnessOtherSpaces ==
    /\ \E t \in Threads :
          /\ pc[t] = "done" /\ req[t].kind = "chat"
          /\ req[t].query = Q_NBSP
          /\ resp[t].status = 400 /\ calls[t] = <<>>
    /\ Strip(Q_CR) = <<>>

\* ------------------------------------------------------- the empty index
\* C12: answer() over an index without records does not return early: the
\* query gives no documents, the generator is then called exactly once with
\* a prompt whose context section is empty, and the result has
\* context_count = 0 and sources = [].
C12_EmptyIndexStillGenerates ==
    \A t \in Threads :
        (req[t].kind = "answer" /\ index = {} /\ CallsOf(t, "query") # <<>>
            /\ CallsOf(t, "query")[1].ok) =>
            /\ MatchesOf(t) = <<>>
            /\ pc[t] \in {"generate", "done"}
            /\ pc[t] = "generate" => CallsOf(t, "generate") = <<>>
            /\ pc[t] = "done" =>
                  /\ Len(CallsOf(t, "generate")) = 1
                  /\ PromptOf(t).context = <<>>
                  /\ PromptOf(t).question = req[t].query
            /\ Answered(t) =>
                  /\ ResultOf(t).context_count = 0
                  /\ ResultOf(t).sources = <<>>

\* answer() has returned over the empty index.
C12_Witness ==
    \E t \in Threads :
        /\ Answered(t)
        /\ index = {}
        /\ ResultOf(t).context_count = 0
        /\ Len(CallsOf(t, "generate")) = 1

\* --------------------------------------------- the shared engine's top_k
\* The query call that thread t logs in the step being taken.
QueryCallMade(t) == calls'[t][Len(calls'[t])]

\* C13: the index query of a /chat request is made with the top_k that the
\* shared engine holds at the moment answer() makes the call, not with the
\* top_k of the request itself, and it returns at most that many matches; so
\* with two requests in progress, one can query with the top_k the other
\* has written (the witness) and receive more documents than it asked for.
C13_QueryUsesTopKOfSharedEngine ==
    [][\A t \in Threads :
          /\ (pc[t] = "query" /\ pc'[t] # "query") =>
                /\ pc'[t] = "query_top_k"
                /\ loc'[t].top_k = engines[loc[t].engine].top_k
          /\ (pc[t] = "query_top_k" /\ pc'[t] # "query_top_k") =>
                /\ Len(calls'[t]) = Len(calls[t]) + 1
                /\ QueryCallMade(t).op = "query"
                /\ QueryCallMade(t).top_k = loc[t].top_k
                /\ Len(QueryCallMade(t).matches) <= loc[t].top_k
                /\ pc'[t] = "generate" =>
                      Len(loc'[t].retrieved_docs) = Len(QueryCallMade(t).matches)]_vars

\* Request A asked for top_k = 1 and request B for top_k = 2; A's query was
\* made with 2 and A was answered with context_count = 2.
C13_Witness ==
    \E a, b \in Threads :
        /\ a # b
        /\ req[a].kind = "chat" /\ req[a].top_k = JInt(1)
        /\ req[b].kind = "chat" /\ req[b].top_k = JInt(2)
        /\ loc[a].engine = loc[b].engine
        /\ pc[a] = "done" /\ resp[a].status = 200
        /\ CallsOf(a, "query")[1].top_k = 2
        /\ resp[a].body.context_count = 2

\* --------------------------------------------------------- get_rag_engine
\* C18 (as claimed): at most one RAGEngine is ever constructed, every caller
\* of get_rag_engine holds that same instance, and the global is set exactly
\* when an engine has been constructed.
C18_EngineIsSingleton ==
    /\ Len(engines) <= 1
    /\ rag_engine = Len(engines)
    /\ \A t \in Threads : loc[t].engine \in {0, rag_engine}

\* ------------------------------------------------- the steps of answer()
\* The names of the calls thread t has made, in order.
OpsOf(t) == [i \in 1..Len(calls[t]) |-> calls[t][i].op]

AnswerSteps == <<"embed", "query", "generate">>

\* C14: a successful answer() has made exactly three calls, in this order:
\* the embedder once, the index once with the vector of the query and the
\* engine's top_k, the generator once with the prompt built from the
\* documents of that lookup, temperature 0.7 and max_tokens 512; at no
\* moment is a step made out of order, twice, or skipped.
C14_OneEmbedOneQueryOneGenerate ==
    \A t \in Threads :
        req[t].kind = "answer" =>
            /\ Len(calls[t]) <= 3
            /\ OpsOf(t) = SubSeq(AnswerSteps, 1, Len(calls[t]))
            /\ Answered(t) =>
                  /\ OpsOf(t) = AnswerSteps
                  /\ \A i \in 1..3 : calls[t][i].ok
                  /\ calls[t][2].vector = embed_text(req[t].query)
                  /\ calls[t][2].vector.dim = 384
                  /\ calls[t][2].top_k = engines[loc[t].engine].top_k
                  /\ calls[t][3].temperature = "0.7"
                  /\ calls[t][3].max_tokens = 512
                  /\ calls[t][3].prompt.question = req[t].query
                  /\ Len(calls[t][3].prompt.context) = Len(calls[t][2].matches)
                  /\ \A i \in 1..Len(calls[t][2].matches) :
                        calls[t][3].prompt.context[i].text
                          = Get(calls[t][2].matches[i].metadata, "text", <<>>)

\* A successful answer to " ab " with top_k = 3 over three matches.
C14_Witness ==
    \E t \in Threads :
        /\ Answered(t)
        /\ req[t].query = Q_PADDED
        /\ OpsOf(t) = AnswerSteps
        /\ calls[t][2].top_k = 3
        /\ Len(calls[t][2].matches) = 3

\* C15: when the embedding, the lookup or the generation of a /chat request
\* fails, the failed call is the last call made for the request: no later
\* step runs, no step is run again, and the request is answered with one
\* error (an error status with the failure's message) and no answer.
C15_FailureAbortsTheAnswer ==
    \A t \in Threads :
        req[t].kind = "chat" =>
            /\ OpsOf(t) = SubSeq(AnswerSteps, 1, Len(calls[t]))
            /\ \A i \in 1..Len(calls[t]) :
                  ~calls[t][i].ok =>
                      /\ i = Len(calls[t])
                      /\ pc[t] = "done"
                      /\ resp[t].kind = "http"
                      /\ resp[t].status \in {400, 500}
                      /\ DOMAIN resp[t].body = {"detail", "error"}
                      /\ resp[t].body.detail # ""
            /\ (pc[t] = "done" /\ resp[t].status = 200) =>
                  \A i \in 1..Len(calls[t]) : calls[t][i].ok

\* The lookup of a /chat request failed after its embedding: two calls, no
\* generation, status 500.
C15_Witness ==
    \E t \in Threads :
        /\ req[t].kind = "chat" /\ pc[t] = "done"
        /\ OpsOf(t) = <<"embed", "query">>
        /\ ~calls[t][2].ok
        /\ resp[t].status = 500
        /\ resp[t].body.detail = "index unavailable"

\* The two other failures: of the embedding, and of the generation.
C15_WitnessEmbed ==
    \E t \in Threads :
        /\ req[t].kind = "chat" /\ pc[t] = "done"
        /\ OpsOf(t) = <<"embed">> /\ ~calls[t][1].ok
        /\ resp[t].status = 500

C15_WitnessGenerate ==
    \E t \in Threads :
        /\ req[t].kind = "chat" /\ pc[t] = "done"
        /\ OpsOf(t) = AnswerSteps /\ ~calls[t][3].ok
        /\ resp[t].status = 500

\* ------------------------------------------------------ OllamaLLM.generate
\* What generate() gave for the generate call c of the log.
GenerateOutcome(c) == OllamaGenerate(c.post)

Unavailable == OllamaGenerate([kind |-> "raise", exc |-> "ConnectionError"])

\* C16 (as claimed): generate() posts once and maps status 200 to the
\* stripped response text, another status to an error with the status and
\* the body, a connection failure to the generator-unavailable error that
\* names the base URL, and a timeout to a condition that differs from the
\* generator-unavailable error.
C16_EachOutcomeHasItsOwnCondition ==
    \A t \in Threads :
        /\ Len(CallsOf(t, "generate")) <= 1
        /\ \A i \in 1..Len(CallsOf(t, "generate")) :
              LET post == CallsOf(t, "generate")[i].post
                  out == GenerateOutcome(CallsOf(t, "generate")[i])
              IN  /\ (post.kind = "response" /\ post.status = 200) =>
                        /\ out.kind = "return"
                        /\ (post.parsed = "object" /\ "response" \in DOMAIN post.json
                              /\ post.json.response.type = "str") =>
                              /\ out.value = Strip(post.json.response.str)
                              /\ out.value = <<"o", "k">> \/ out.value = <<>>
                        /\ pc[t] = "done" /\ ResultOf(t).answer = out.value
                  /\ (post.kind = "response" /\ post.status # 200) =>
                        /\ out.kind = "raise"
                        /\ out.error.status = post.status
                        /\ out.error.body = post.text
                        /\ out.error # Unavailable.error
                  /\ (post.kind = "raise" /\ post.exc \in {"ConnectionError", "SSLError"}) =>
                        /\ out.kind = "raise"
                        /\ out.error.msg = "Cannot connect to Ollama"
                        /\ out.error.url = OLLAMA_BASE_URL
                  /\ (post.kind = "raise" /\ post.exc \in {"ConnectTimeout", "ReadTimeout"}) =>
                        /\ out.kind = "raise"
                        /\ out.error # Unavailable.error
                  /\ out.kind = "raise" =>
                        (pc[t] = "done" /\ resp[t].kind = "raise"
                            /\ resp[t].body.error = out.error)

\* ------------------------------------------- the records /index submits
\* C17: a /index request makes one embed_batch call with the texts of its
\* documents in their order, and the i-th record it hands to the index has
\* the id of the i-th document, the i-th embedding of that call (the
\* embedding of the i-th text), and as metadata the i-th text and the i-th
\* source, "unknown" when the document has none; once the request has
\* succeeded the index holds these records.
C17_RecordsPairDocumentsWithEmbeddings ==
    \A t \in Threads :
        (req[t].kind = "index" /\ CallsOf(t, "upsert_documents") # <<>>) =>
            LET documents == req[t].documents
                records == loc[t].vectors_to_upsert
                embedded == CallsOf(t, "embed_batch")
            IN  /\ Len(embedded) = 1
                /\ embedded[1].ok
                /\ Len(embedded[1].texts) = Len(documents)
                /\ Len(records) = Len(documents)
                /\ \A i \in 1..Len(documents) :
                      /\ embedded[1].texts[i] = documents[i].text
                      /\ records[i][1] = documents[i].id
                      /\ records[i][2] = embed_batch(embedded[1].texts)[i]
                      /\ records[i][2] = embed_text(documents[i].text)
                      /\ records[i][3].text = documents[i].text
                      /\ records[i][3].source =
                            (IF "source" \in DOMAIN documents[i]
                             THEN documents[i].source ELSE "unknown")
                /\ (pc[t] = "done" /\ resp[t].status = 200) =>
                      \A i \in 1..Len(documents) :
                          [id |-> records[i][1], values |-> records[i][2],
                           metadata |-> records[i][3]] \in index

\* Two documents with different texts were indexed, the second without a
\* source: it is stored with source "unknown" and its own embedding.
C17_Witness ==
    \E t \in Threads :
        /\ req[t].kind = "index" /\ pc[t] = "done" /\ resp[t].status = 200
        /\ Len(req[t].documents) = 2
        /\ "source" \notin DOMAIN req[t].documents[2]
        /\ embed_text(req[t].documents[1].text) # embed_text(req[t].documents[2].text)
        /\ [id |-> 2, values |-> embed_text(T50),
            metadata |-> [text |-> T50, source |-> "unknown"]] \in index

\* ------------------------------------------------ top_k of one request
\* C19 (as claimed): with the requests handled one after the other, the
\* lookup of a /chat request is made with the request's own top_k, with 5
\* when top_k is omitted, and with the default 5 when top_k is null or 0,
\* whatever earlier requests have written to the shared engine.
C19_OwnTopKOrDefault ==
    \A t \in Threads :
        (req[t].kind = "chat" /\ CallsOf(t, "query") # <<>>) =>
            LET k == CallsOf(t, "query")[1].top_k
            IN  /\ (~req[t].top_k.null /\ req[t].top_k.int # 0) => k = req[t].top_k.int
                /\ (req[t].top_k.null \/ req[t].top_k.int = 0) => k = 5

\* ------------------------------------------------- malformed documents
\* Some document of the list has no "id" or no "text".
Malformed(documents) ==
    \E i \in 1..Len(documents) :
        "id" \notin DOMAIN documents[i] \/ "text" \notin DOMAIN documents[i]

\* C20: a /index request with a document that lacks "id" or "text", at any
\* place of the list, never reaches upsert_documents and submits no batch;
\* no step of its handling changes the index; and it is answered with an
\* error, not with a count of indexed documents.
C20_MalformedBatchWritesNothing ==
    /\ [](\A t \in Threads :
            (req[t].kind = "index" /\ Malformed(req[t].documents)) =>
                /\ CallsOf(t, "upsert_documents") = <<>>
                /\ CallsOf(t, "upsert") = <<>>
                /\ pc[t] \in {"embed_batch", "done"}
                /\ pc[t] = "done" =>
                      /\ resp[t].status >= 400
                      /\ "documents_indexed" \notin DOMAIN resp[t].body)
    /\ [][\A t \in Threads :
            (req'[t].kind = "index" /\ Malformed(req'[t].documents)
                /\ (pc'[t] # pc[t] \/ req'[t] # req[t] \/ calls'[t] # calls[t])) =>
                index' = index]_vars

\* A list whose first document is well-formed and whose second has no "id"
\* was rejected after the embedding, and the index holds no record of it.
C20_Witness ==
    \E t \in Threads :
        /\ req[t].kind = "index" /\ pc[t] = "done"
        /\ Len(req[t].documents) = 2
        /\ "id" \in DOMAIN req[t].documents[1] /\ "text" \in DOMAIN req[t].documents[1]
        /\ "id" \notin DOMAIN req[t].documents[2]
        /\ Len(CallsOf(t, "embed_batch")) = 1
        /\ resp[t].status = 500
        /\ index = SampleIndex
        /\ \A r \in index : r.id # req[t].documents[1].id

\* The other malformed lists: "text" missing in the second document, and the
\* malformed document first.
C20_WitnessNoText ==
    \E t \in Threads :
        /\ req[t].kind = "index" /\ pc[t] = "done"
        /\ Len(req[t].documents) = 2
        /\ "text" \notin DOMAIN req[t].documents[2]
        /\ calls[t] = <<>> /\ resp[t].status = 500

C20_WitnessFirst ==
    \E t \in Threads :
        /\ req[t].kind = "index" /\ pc[t] = "done"
        /\ Len(req[t].documents) = 2
        /\ "id" \notin DOMAIN req[t].documents[1]
        /\ resp[t].status = 500

====
